---- MODULE Spec2Model ----
(***************************************************************************)
(* Model of spdlog's asynchronous thread pool (details::thread_pool):      *)
(* the constructor, the destructor, post_log / post_flush /                *)
(* post_async_msg_, and the worker loop worker_loop_ / process_next_msg_,  *)
(* together with the async_msg envelope and the shared_ptr that it holds   *)
(* on the async_logger.  The bounded queue mpmc_blocking_queue is not part *)
(* of the sources at hand; enqueue, enqueue_nowait and dequeue_for follow  *)
(* its documented contract.                                                *)
(***************************************************************************)
EXTENDS Integers, Sequences, FiniteSets, TLC

\* ------------------------------------------------------------------ bounds
MaxQueueItems == 2      \* largest q_max_items the constructor is tried with
MaxThreads == 2         \* largest valid threads_n the constructor is tried with
MaxPosts == 3           \* post_log / post_flush calls made in all

\* thread_pool(): "valid range is 1-1000"
MaxThreadsN == 1000

Producers == {"p1", "p2"}
Loggers == {"L1"}
nullptr == "nullptr"
NoMsg == [msg_type |-> "none", worker_ptr |-> nullptr, id |-> <<"none", 0>>]

NoFrame == [msg |-> NoMsg, policy |-> "none"]

\* enum class async_msg_type
async_msg_type == {"log", "flush", "terminate"}
\* async_overflow_policy: block, or (post_async_msg_'s else branch) discard
async_overflow_policy == {"block", "discard"}

VARIABLES
    cfg,          \* the constructor's arguments [q_max_items, threads_n]
    pool,         \* "invalid" (constructor threw), "alive", "terminating"
                  \* (destructor posting), "joining", "destroyed"; and, if the
                  \* destructor is run again, "terminating_again",
                  \* "joining_again", "destroyed_again"
    q_,           \* the queue [q, max_items, overrun_counter]
    threads_,     \* worker -> "start", "loop", "wait", "process", "exited", or
                  \* "crashed" (an exception left the thread's function)
    on_thread_start_calls,  \* history: worker -> calls of on_thread_start made
    incoming,     \* worker -> incoming_async_msg of process_next_msg_
    term_posted,  \* the destructor's first loop index i
    joined,       \* number of threads the destructor has joined
    ppc,          \* producer -> "idle" or "blocked" (suspended in q_.enqueue)
    frame,        \* producer -> arguments of the post_async_msg_ it is suspended in
    posts,        \* producer -> number of post_log / post_flush calls made
    owner,        \* logger -> the external owner still holds its shared_ptr
    use_count,    \* logger -> shared_ptr use_count
    accepted,     \* history: Acceptance records in the order envelopes entered the queue
    dequeued,     \* history: envelopes in the order they left the queue
    dispatched,   \* history: [by, msg, call, ok] in the order backend calls ran
    discarded     \* history: [msg, policy] of the envelopes dropped on a full queue

vars == <<cfg, pool, q_, threads_, on_thread_start_calls, incoming, term_posted, joined, ppc, frame,
          posts, owner, use_count, accepted, dequeued, dispatched, discarded>>

Workers == DOMAIN threads_

RECURSIVE SumOver(_, _)
SumOver(f, S) ==
    IF S = {} THEN 0
    ELSE LET x == CHOOSE y \in S : TRUE IN f[x] + SumOver(f, S \ {x})

TotalPosts == SumOver(posts, Producers)

\* history entry for an envelope entering the queue: the envelope and, for a
\* terminate message, the number of envelopes that had left the queue by then
Acceptance(m) ==
    [msg |-> m, at |-> IF m.msg_type = "terminate" THEN Len(dequeued) ELSE 0]

\* ------------------------------------------------------- async_msg (envelope)
\* faulty variant: the envelope keeps the pointer but leaves the reference with
\* the caller's temporary
async_msg_not_owning(worker, the_type, id) ==
    [msg |-> [msg_type |-> the_type, worker_ptr |-> worker, id |-> id],
     moved_from |-> worker]

\* async_msg(async_logger_ptr &&worker, async_msg_type the_type[, const log_msg &m]):
\* worker_ptr{std::move(worker)}; "moved_from" is what is left in the argument.
\* "id" names the envelope (for a log message, its log_msg_buffer content).
async_msg(worker, the_type, id) ==
    [msg |-> [msg_type |-> the_type, worker_ptr |-> worker, id |-> id],
     moved_from |-> nullptr]

\* explicit async_msg(async_msg_type the_type) : async_msg{nullptr, the_type}
async_msg_of_type(the_type, id) == async_msg(nullptr, the_type, id).msg

\* shared_ptr copy (the caller's shared_from_this()) and shared_ptr destruction
add_ref(uc, ptr) == IF ptr = nullptr THEN uc ELSE [uc EXCEPT ![ptr] = @ + 1]
drop_ref(uc, ptr) == IF ptr = nullptr THEN uc ELSE [uc EXCEPT ![ptr] = @ - 1]

\* faulty variant: the envelope's reference is never given back
destroy_async_msg_leaking(uc, m) == uc

\* ~async_msg() = default: destroys the worker_ptr member
destroy_async_msg(uc, m) == drop_ref(uc, m.worker_ptr)

\* --------------------------------------------------- mpmc_blocking_queue
full(qs) == Len(qs.q) >= qs.max_items

\* faulty variant: inserts at the head
enqueue_at_head(qs, item) ==
    IF full(qs)
    THEN [qs |-> qs, returned |-> FALSE, dropped |-> FALSE]
    ELSE [qs |-> [qs EXCEPT !.q = <<item>> \o @], returned |-> TRUE, dropped |-> FALSE]

\* enqueue: waits while full (returned = FALSE: the caller stays suspended),
\* then inserts at the tail
enqueue(qs, item) ==
    IF full(qs)
    THEN [qs |-> qs, returned |-> FALSE, dropped |-> FALSE]
    ELSE [qs |-> [qs EXCEPT !.q = Append(@, item)], returned |-> TRUE, dropped |-> FALSE]

\* enqueue_nowait: if full, discards the item and counts it; never waits
enqueue_nowait(qs, item) ==
    IF full(qs)
    THEN [qs |-> [qs EXCEPT !.overrun_counter = @ + 1], returned |-> TRUE, dropped |-> TRUE]
    ELSE [qs |-> [qs EXCEPT !.q = Append(@, item)], returned |-> TRUE, dropped |-> FALSE]

\* dequeue_for: the head item, once there is one
dequeue_for(qs) == [qs |-> [qs EXCEPT !.q = Tail(@)], popped |-> Head(qs.q)]

\* ------------------------------------------------------------ thread_pool
\* faulty variant: q_(q_max_items + 1)
thread_pool_oversized(q_max_items, threads_n) ==
    IF threads_n = 0 \/ threads_n > MaxThreadsN
    THEN [pool |-> "invalid", max_items |-> q_max_items + 1, threads |-> <<>>]
    ELSE [pool |-> "alive", max_items |-> q_max_items + 1,
          threads |-> [i \in 1..threads_n |-> "start"]]

\* faulty variant: the threads_n == 0 test is missing
thread_pool_zero_accepted(q_max_items, threads_n) ==
    IF threads_n > MaxThreadsN
    THEN [pool |-> "invalid", max_items |-> q_max_items, threads |-> <<>>]
    ELSE [pool |-> "alive", max_items |-> q_max_items,
          threads |-> [i \in 1..threads_n |-> "start"]]

\* faulty variant: the thread's lambda goes straight to worker_loop_()
thread_pool_hook_skipped(q_max_items, threads_n) ==
    IF threads_n = 0 \/ threads_n > MaxThreadsN
    THEN [pool |-> "invalid", max_items |-> q_max_items, threads |-> <<>>]
    ELSE [pool |-> "alive", max_items |-> q_max_items,
          threads |-> [i \in 1..threads_n |-> "loop"]]

\* thread_pool(q_max_items, threads_n, on_thread_start): q_(q_max_items), then
\* throws for threads_n == 0 or threads_n > 1000, else starts threads_n threads
thread_pool(q_max_items, threads_n) ==
    IF threads_n = 0 \/ threads_n > MaxThreadsN
    THEN [pool |-> "invalid", max_items |-> q_max_items, threads |-> <<>>]
    ELSE [pool |-> "alive", max_items |-> q_max_items,
          threads |-> [i \in 1..threads_n |-> "start"]]

\* faulty variants: the two branches swapped; enqueue_nowait for every policy
post_async_msg_swapped(qs, new_msg, overflow_policy) ==
    IF overflow_policy # "block"
    THEN enqueue(qs, new_msg)
    ELSE enqueue_nowait(qs, new_msg)

post_async_msg_always_nowait(qs, new_msg, overflow_policy) ==
    enqueue_nowait(qs, new_msg)

\* post_async_msg_: block -> q_.enqueue, otherwise q_.enqueue_nowait
post_async_msg_(qs, new_msg, overflow_policy) ==
    IF overflow_policy = "block"
    THEN enqueue(qs, new_msg)
    ELSE enqueue_nowait(qs, new_msg)

\* faulty variant: terminate messages posted with the discard policy
dtor_policy_overrun == "discard"

\* the policy ~thread_pool posts its terminate messages with
dtor_policy == "block"

\* faulty variant: the first loop stops one short
dtor_count_short(n) == n - 1

\* the number of terminate messages ~thread_pool posts: threads_.size()
dtor_count(n) == n

\* faulty variant: the flush case makes no backend call
process_switch_flush_skipped(m) ==
    CASE m.msg_type = "log" -> [call |-> "backend_sink_it_", active |-> TRUE]
      [] m.msg_type = "flush" -> [call |-> "none", active |-> TRUE]
      [] m.msg_type = "terminate" -> [call |-> "none", active |-> FALSE]
      [] OTHER -> [call |-> "none", active |-> TRUE]

\* faulty variant: the flush case returns false
process_switch_exit_on_flush(m) ==
    CASE m.msg_type = "log" -> [call |-> "backend_sink_it_", active |-> TRUE]
      [] m.msg_type = "flush" -> [call |-> "backend_flush_", active |-> FALSE]
      [] m.msg_type = "terminate" -> [call |-> "none", active |-> FALSE]
      [] OTHER -> [call |-> "none", active |-> TRUE]

\* process_next_msg_'s switch: the backend call made and the value returned
process_switch(m) ==
    CASE m.msg_type = "log" -> [call |-> "backend_sink_it_", active |-> TRUE]
      [] m.msg_type = "flush" -> [call |-> "backend_flush_", active |-> TRUE]
      [] m.msg_type = "terminate" -> [call |-> "none", active |-> FALSE]
      [] OTHER -> [call |-> "none", active |-> TRUE]

\* ------------------------------------------------- async_logger backend
NoCall == [returns |-> TRUE, ok |-> TRUE]

\* faulty variant: the sink's exception leaves backend_sink_it_ / backend_flush_
backend_call_throwing(sink_fails) == [returns |-> ~sink_fails, ok |-> ~sink_fails]

\* async_logger::backend_sink_it_ / backend_flush_ as called by the worker: a
\* failing sink is handled inside the logger (its error handler), and the call
\* returns to process_next_msg_
backend_call(sink_fails) == [returns |-> TRUE, ok |-> ~sink_fails]

\* the submissions whose write or flush the sink fails on (an I/O error of the
\* destination): the first of p1 and the second of p2
FailingWrites == {<<"p1", 1>>, <<"p2", 2>>}

sink_fails(m) == m.id \in FailingWrites

\* ------------------------------------------------------------------- Init
\* the threads_n the constructor is tried with: 0, the small valid counts, and
\* the first count above the valid range
ThreadsNTried == (0..MaxThreads) \cup {MaxThreadsN + 1}

Init ==
    \E q_max_items \in 1..MaxQueueItems, threads_n \in ThreadsNTried :
        LET tp == thread_pool(q_max_items, threads_n) IN
        /\ cfg = [q_max_items |-> q_max_items, threads_n |-> threads_n]
        /\ pool = tp.pool
        /\ q_ = [q |-> <<>>, max_items |-> tp.max_items, overrun_counter |-> 0]
        /\ threads_ = tp.threads
        /\ on_thread_start_calls = [w \in DOMAIN tp.threads |-> 0]
        /\ incoming = [w \in DOMAIN tp.threads |-> NoMsg]
        /\ term_posted = 0
        /\ joined = 0
        /\ ppc = [p \in Producers |-> "idle"]
        /\ frame = [p \in Producers |-> NoFrame]
        /\ posts = [p \in Producers |-> 0]
        /\ owner = [l \in Loggers |-> TRUE]
        /\ use_count = [l \in Loggers |-> 1]
        /\ accepted = <<>>
        /\ dequeued = <<>>
        /\ dispatched = <<>>
        /\ discarded = {}

\* ---------------------------------------------------------------- workers
\* the thread's lambda: on_thread_start(), then worker_loop_()
OnThreadStart(w) ==
    /\ threads_[w] = "start"
    /\ on_thread_start_calls' = [on_thread_start_calls EXCEPT ![w] = @ + 1]
    /\ threads_' = [threads_ EXCEPT ![w] = "loop"]
    /\ UNCHANGED <<cfg, pool, q_, incoming, term_posted, joined, ppc, frame, posts,
                   owner, use_count, accepted, dequeued, dispatched, discarded>>

\* worker_loop_: while (process_next_msg_()) {} ; the call enters q_.dequeue_for
WorkerLoop(w) ==
    /\ threads_[w] = "loop"
    /\ threads_' = [threads_ EXCEPT ![w] = "wait"]
    /\ UNCHANGED <<cfg, on_thread_start_calls, pool, q_, incoming, term_posted, joined, ppc, frame, posts,
                   owner, use_count, accepted, dequeued, dispatched, discarded>>

\* dequeue_for returned true: incoming_async_msg holds the head of the queue
Dequeue(w) ==
    /\ threads_[w] = "wait"
    /\ q_.q # <<>>
    /\ LET r == dequeue_for(q_) IN
        /\ q_' = r.qs
        /\ incoming' = [incoming EXCEPT ![w] = r.popped]
        /\ dequeued' = Append(dequeued, r.popped)
    /\ threads_' = [threads_ EXCEPT ![w] = "process"]
    /\ UNCHANGED <<cfg, on_thread_start_calls, pool, term_posted, joined, ppc, frame, posts, owner,
                   use_count, accepted, dispatched, discarded>>

\* dequeue_for timed out: if (!dequeued) return true
DequeueTimeout(w) ==
    /\ threads_[w] = "wait"
    /\ q_.q = <<>>
    /\ threads_' = [threads_ EXCEPT ![w] = "loop"]
    /\ UNCHANGED <<cfg, on_thread_start_calls, pool, q_, incoming, term_posted, joined, ppc, frame, posts,
                   owner, use_count, accepted, dequeued, dispatched, discarded>>

\* the switch of process_next_msg_ and its return, which destroys
\* incoming_async_msg; the backend call may meet a failing sink, and an
\* exception leaving it would leave process_next_msg_, worker_loop_ and the
\* thread's function, none of which catches
Process(w) ==
    /\ threads_[w] = "process"
    /\ LET m == incoming[w]
           r == process_switch(m)
           b == IF r.call = "none" THEN NoCall ELSE backend_call(sink_fails(m)) IN
        /\ dispatched' =
              IF r.call = "none"
              THEN dispatched
              ELSE Append(dispatched, [by |-> w, msg |-> m, call |-> r.call, ok |-> b.ok])
        /\ use_count' = destroy_async_msg(use_count, m)
        /\ threads_' = [threads_ EXCEPT ![w] =
                            IF ~b.returns THEN "crashed"
                            ELSE IF r.active THEN "loop" ELSE "exited"]
    /\ incoming' = [incoming EXCEPT ![w] = NoMsg]
    /\ UNCHANGED <<cfg, on_thread_start_calls, pool, q_, term_posted, joined, ppc, frame, posts, owner,
                   accepted, dequeued, discarded>>

\* -------------------------------------------------------------- producers
\* post_log / post_flush: build the envelope from the caller's shared_ptr, then
\* post_async_msg_
Post(p, l, the_type, overflow_policy) ==
    /\ pool \in {"alive", "terminating", "joining"}
    /\ ppc[p] = "idle"
    /\ TotalPosts < MaxPosts
    /\ owner[l]
    /\ LET uc1 == add_ref(use_count, l)
           c == async_msg(l, the_type, <<p, posts[p] + 1>>)
           r == post_async_msg_(q_, c.msg, overflow_policy)
           uc2 == drop_ref(uc1, c.moved_from)
       IN
        /\ q_' = r.qs
        /\ frame' = [frame EXCEPT ![p] = IF r.returned THEN NoFrame ELSE [msg |-> c.msg, policy |-> overflow_policy]]
        /\ ppc' = [ppc EXCEPT ![p] = IF r.returned THEN "idle" ELSE "blocked"]
        /\ use_count' = IF r.dropped THEN destroy_async_msg(uc2, c.msg) ELSE uc2
        /\ accepted' = IF r.returned /\ ~r.dropped THEN Append(accepted, Acceptance(c.msg)) ELSE accepted
        /\ discarded' = IF r.dropped
                        THEN discarded \cup {[msg |-> c.msg, policy |-> overflow_policy]}
                        ELSE discarded
    /\ posts' = [posts EXCEPT ![p] = @ + 1]
    /\ UNCHANGED <<cfg, on_thread_start_calls, pool, threads_, incoming, term_posted, joined, owner,
                   dequeued, dispatched>>

PostLog(p, l, overflow_policy) == Post(p, l, "log", overflow_policy)

PostFlush(p, l, overflow_policy) == Post(p, l, "flush", overflow_policy)

\* faulty variant: the notification for freed room is missing, the suspended
\* producer is never woken
EnqueueResume_unnotified(p) ==
    /\ ppc[p] = "blocked"
    /\ FALSE
    /\ UNCHANGED vars

\* a producer suspended in q_.enqueue is woken once the queue has room
EnqueueResume(p) ==
    /\ ppc[p] = "blocked"
    /\ ~full(q_)
    /\ LET r == enqueue(q_, frame[p].msg) IN
        /\ q_' = r.qs
        /\ ppc' = [ppc EXCEPT ![p] = IF r.returned THEN "idle" ELSE "blocked"]
        /\ accepted' = IF r.returned THEN Append(accepted, Acceptance(frame[p].msg)) ELSE accepted
        /\ frame' = [frame EXCEPT ![p] = IF r.returned THEN NoFrame ELSE @]
    /\ UNCHANGED <<cfg, on_thread_start_calls, pool, threads_, incoming, term_posted, joined, posts,
                   owner, use_count, dequeued, dispatched, discarded>>

\* the external owner of a logger drops its shared_ptr
ReleaseOwner(l) ==
    /\ owner[l]
    /\ \A p \in Producers : ppc[p] = "blocked" => frame[p].msg.worker_ptr # l
    /\ owner' = [owner EXCEPT ![l] = FALSE]
    /\ use_count' = drop_ref(use_count, l)
    /\ UNCHANGED <<cfg, on_thread_start_calls, pool, q_, threads_, incoming, term_posted, joined, ppc, frame,
                   posts, accepted, dequeued, dispatched, discarded>>

\* ------------------------------------------------------------- destructor
\* ~thread_pool is entered by the thread that owns the pool
DtorBegin ==
    /\ pool = "alive"
    /\ pool' = IF dtor_count(Len(threads_)) = 0 THEN "joining" ELSE "terminating"
    /\ UNCHANGED <<cfg, on_thread_start_calls, q_, threads_, incoming, term_posted, joined, ppc, frame, posts,
                   owner, use_count, accepted, dequeued, dispatched, discarded>>

\* ~thread_pool, first loop: one terminate message per thread
DtorPost ==
    /\ pool = "terminating"
    /\ term_posted < dtor_count(Len(threads_))
    /\ LET m == async_msg_of_type("terminate", <<"dtor", term_posted + 1>>)
           r == post_async_msg_(q_, m, dtor_policy) IN
        /\ r.returned
        /\ q_' = r.qs
        /\ accepted' = IF r.dropped THEN accepted ELSE Append(accepted, Acceptance(m))
        /\ discarded' = IF r.dropped
                        THEN discarded \cup {[msg |-> m, policy |-> dtor_policy]}
                        ELSE discarded
    /\ term_posted' = term_posted + 1
    /\ pool' = IF term_posted + 1 = dtor_count(Len(threads_)) THEN "joining" ELSE "terminating"
    /\ UNCHANGED <<cfg, on_thread_start_calls, threads_, incoming, joined, ppc, frame, posts, owner,
                   use_count, dequeued, dispatched>>

\* ~thread_pool, second loop: t.join() for each thread in turn
DtorJoin ==
    /\ pool = "joining"
    /\ joined < Len(threads_)
    /\ threads_[joined + 1] = "exited"
    /\ joined' = joined + 1
    /\ pool' = IF joined + 1 = Len(threads_) THEN "destroyed" ELSE "joining"
    /\ UNCHANGED <<cfg, on_thread_start_calls, q_, threads_, incoming, term_posted, ppc, frame, posts,
                   owner, use_count, accepted, dequeued, dispatched, discarded>>

\* ------------------------------------------------------------------- Next
Next ==
    \/ \E w \in Workers : OnThreadStart(w)
    \/ \E w \in Workers : WorkerLoop(w)
    \/ \E w \in Workers : Dequeue(w)
    \/ \E w \in Workers : DequeueTimeout(w)
    \/ \E w \in Workers : Process(w)
    \/ \E p \in Producers, l \in Loggers, pol \in async_overflow_policy : PostLog(p, l, pol)
    \/ \E p \in Producers, l \in Loggers, pol \in async_overflow_policy : PostFlush(p, l, pol)
    \/ \E p \in Producers : EnqueueResume(p)
    \/ \E l \in Loggers : ReleaseOwner(l)
    \/ DtorBegin
    \/ DtorPost
    \/ DtorJoin

Spec == Init /\ [][Next]_vars

\* Every worker thread and the destructor's thread keep being scheduled; a thread
\* waiting in q_.enqueue for room gets it if room keeps appearing.  Producers
\* and logger owners may stop at any time.
WorkerStep(w) ==
    /\ w \in Workers
    /\ \/ OnThreadStart(w)
       \/ WorkerLoop(w)
       \/ Dequeue(w)
       \/ DequeueTimeout(w)
       \/ Process(w)

Fairness ==
    /\ \A w \in 1..MaxThreads : WF_vars(WorkerStep(w))
    /\ SF_vars(DtorPost)
    /\ WF_vars(DtorJoin)

\* the fair specification explores a smaller number of submissions
MaxFairPosts == 2

FairNext == Next /\ SumOver(posts', Producers) <= MaxFairPosts

FairSpec == Init /\ [][FairNext]_vars /\ Fairness

\* a thread suspended in q_.enqueue runs again when the queue keeps having room
ProducerFairness == \A p \in Producers : WF_vars(EnqueueResume(p))

LiveSpec == Init /\ [][FairNext]_vars /\ Fairness /\ ProducerFairness

\* ---------------------------------------------- the destructor, run again
\* C++ runs ~thread_pool once; its body can run a second time only through an
\* explicit second destructor call.  The body has no "already stopped" test.
\* It reads threads_.size() from a vector whose lifetime has ended: either the
\* size the vector had, or 0.
DtorAgainBegin ==
    /\ pool = "destroyed"
    /\ \E size_read \in {0, Len(threads_)} :
          pool' = IF dtor_count(size_read) = 0 THEN "destroyed_again" ELSE "terminating_again"
    /\ UNCHANGED <<cfg, on_thread_start_calls, q_, threads_, incoming, term_posted, joined, ppc, frame, posts,
                   owner, use_count, accepted, dequeued, dispatched, discarded>>

\* first loop again: one more terminate message per thread
DtorAgainPost ==
    /\ pool = "terminating_again"
    /\ term_posted < 2 * dtor_count(Len(threads_))
    /\ LET m == async_msg_of_type("terminate", <<"dtor", term_posted + 1>>)
           r == post_async_msg_(q_, m, dtor_policy) IN
        /\ r.returned
        /\ q_' = r.qs
        /\ accepted' = IF r.dropped THEN accepted ELSE Append(accepted, Acceptance(m))
        /\ discarded' = IF r.dropped
                        THEN discarded \cup {[msg |-> m, policy |-> dtor_policy]}
                        ELSE discarded
    /\ term_posted' = term_posted + 1
    /\ pool' = IF term_posted + 1 = 2 * dtor_count(Len(threads_))
               THEN "joining_again" ELSE "terminating_again"
    /\ UNCHANGED <<cfg, on_thread_start_calls, threads_, incoming, joined, ppc, frame, posts, owner,
                   use_count, dequeued, dispatched>>

\* second loop again: join() of a thread that is not joinable throws
\* std::system_error, which SPDLOG_CATCH_STD swallows; the destructor returns
DtorAgainJoin ==
    /\ pool = "joining_again"
    /\ pool' = "destroyed_again"
    /\ UNCHANGED <<cfg, on_thread_start_calls, q_, threads_, incoming, term_posted, joined, ppc, frame, posts,
                   owner, use_count, accepted, dequeued, dispatched, discarded>>

AgainNext == Next \/ DtorAgainBegin \/ DtorAgainPost \/ DtorAgainJoin

AgainSpec == Init /\ [][AgainNext]_vars

\* the behaviours in which every post_log / post_flush call is made before the
\* destructor is entered (a call may still be suspended in q_.enqueue then)
OrderlyNext == Next /\ (pool # "alive" => posts' = posts)

OrderlySpec == Init /\ [][OrderlyNext]_vars

\* ------------------------------------------------------------------ claims
AllExited == Workers # {} /\ \A w \in Workers : threads_[w] = "exited"

AcceptedMsgs == {accepted[i].msg : i \in DOMAIN accepted}
DequeuedMsgs == {dequeued[i] : i \in DOMAIN dequeued}
AcceptedAt(m) == CHOOSE i \in DOMAIN accepted : accepted[i].msg = m
DequeuedAt(m) == CHOOSE i \in DOMAIN dequeued : dequeued[i] = m
DispatchCount(m) == Cardinality({k \in DOMAIN dispatched : dispatched[k].msg = m})

\* the envelopes alive in the pool: held by a suspended producer, in the queue,
\* or in a worker's incoming_async_msg
InFlight ==
    {frame[p].msg : p \in {x \in Producers : ppc[x] = "blocked"}}
        \cup {q_.q[i] : i \in DOMAIN q_.q}
        \cup {incoming[w] : w \in {x \in Workers : threads_[x] = "process"}}

\* C1: the number of envelopes in the queue never exceeds the q_max_items the
\* pool was constructed with, whatever producers, workers and the destructor do.
C1_CapacityInvariant == Len(q_.q) <= cfg.q_max_items

\* C1 witness: a full queue of the largest capacity during teardown, with a
\* producer suspended on it and an envelope already discarded on it.
C1_Witness ==
    /\ cfg.q_max_items = MaxQueueItems
    /\ Len(q_.q) = cfg.q_max_items
    /\ \E p \in Producers : ppc[p] = "blocked"
    /\ discarded # {}
    /\ \E i \in DOMAIN q_.q : q_.q[i].msg_type = "terminate"
    /\ dequeued # <<>>

\* C2: once the destructor has been entered it returns, with every one of the
\* threads_n workers exited and joined.
C2_TerminationCompleteness ==
    (pool = "terminating") ~>
        (/\ pool = "destroyed"
         /\ joined = cfg.threads_n
         /\ \A w \in Workers : threads_[w] = "exited")

\* C2 witness: the destructor has returned from a pool whose queue is smaller
\* than its number of workers, and a producer's envelope entered the queue
\* after the first terminate message.
C2_Witness ==
    /\ pool = "destroyed"
    /\ cfg.q_max_items < cfg.threads_n
    /\ joined = cfg.threads_n
    /\ \A w \in Workers : threads_[w] = "exited"
    /\ \E i, j \in DOMAIN accepted :
          /\ i < j
          /\ accepted[i].msg.msg_type = "terminate"
          /\ accepted[j].msg.msg_type # "terminate"

\* C3 (as claimed): no envelope is dequeued or dispatched twice, and no
\* envelope submitted with the blocking policy is lost: once every worker has
\* exited nothing is dispatched any more, so by then no producer is still
\* suspended with its envelope.
C3_ExactlyOnceConsumption ==
    /\ \A i, j \in DOMAIN dequeued : dequeued[i] = dequeued[j] => i = j
    /\ \A m \in DequeuedMsgs : DispatchCount(m) <= 1
    /\ AllExited => \A p \in Producers : ppc[p] # "blocked"

\* the counter equals the number of rejected envelopes, all rejected under the
\* discard policy, and none of them ever enters the queue or is dispatched
C4_RejectedNeverSeen ==
    /\ q_.overrun_counter = Cardinality(discarded)
    /\ \A d \in discarded :
          /\ d.policy = "discard"
          /\ d.msg \notin AcceptedMsgs
          /\ d.msg \notin InFlight
          /\ DispatchCount(d.msg) = 0

\* what one post_log / post_flush call does to the queue and the counter
C4_SubmissionStep ==
    \A p \in Producers :
        posts'[p] = posts[p] + 1 =>
            LET id == <<p, posts'[p]>> IN
            IF full(q_)
            THEN \/ /\ ppc'[p] = "blocked"
                    /\ frame'[p].policy = "block"
                    /\ q_' = q_
                    /\ discarded' = discarded
                 \/ /\ ppc'[p] = "idle"
                    /\ q_'.overrun_counter = q_.overrun_counter + 1
                    /\ q_'.q = q_.q
                    /\ \E d \in discarded' :
                          /\ d.msg.id = id
                          /\ discarded' = discarded \cup {d}
                          /\ d \notin discarded
            ELSE /\ ppc'[p] = "idle"
                 /\ q_'.overrun_counter = q_.overrun_counter
                 /\ discarded' = discarded
                 /\ Len(q_'.q) = Len(q_.q) + 1
                 /\ SubSeq(q_'.q, 1, Len(q_.q)) = q_.q
                 /\ q_'.q[Len(q_'.q)].id = id

\* C4: a submission that finds the queue full either suspends (blocking policy)
\* or is rejected: the counter grows by exactly 1, the queue is unchanged and the
\* rejected envelope is the new one; a submission that finds room appends its
\* envelope and leaves the counter alone.  The counter equals the number of
\* rejected envelopes, all rejected under the discard policy, and none of them
\* ever enters the queue or is dispatched; only submissions change the counter.
C4_OverrunCounting ==
    /\ [](C4_RejectedNeverSeen)
    /\ [][C4_SubmissionStep]_vars
    /\ [][q_'.overrun_counter # q_.overrun_counter => \E p \in Producers : posts'[p] # posts[p]]_vars

\* C4 witness: two submissions were rejected on a full queue, a later
\* submission of the same producer found room, and a dispatch has run.
C4_Witness ==
    /\ q_.overrun_counter = 2
    /\ Cardinality(discarded) = 2
    /\ \E i \in DOMAIN accepted :
          /\ accepted[i].msg.msg_type # "terminate"
          /\ \E d \in discarded : d.msg.id[1] = accepted[i].msg.id[1]
                                  /\ d.msg.id[2] < accepted[i].msg.id[2]
    /\ dispatched # <<>>

\* C5: two envelopes of one producer that both entered the queue leave it in
\* the order they were submitted.
C5_FifoPerProducer ==
    \A a, b \in AcceptedMsgs :
        (/\ a.id[1] \in Producers
         /\ a.id[1] = b.id[1]
         /\ a.id[2] < b.id[2]
         /\ b \in DequeuedMsgs)
        => (a \in DequeuedMsgs /\ DequeuedAt(a) < DequeuedAt(b))

\* C5 witness: with two workers, two envelopes of one producer have left the
\* queue with an envelope of the other producer between them.
C5_Witness ==
    /\ cfg.threads_n = 2
    /\ \E i, j, k \in DOMAIN dequeued :
          /\ i < k /\ k < j
          /\ dequeued[i].id[1] = dequeued[j].id[1]
          /\ dequeued[i].id[1] \in Producers
          /\ dequeued[k].id[1] \in Producers
          /\ dequeued[k].id[1] # dequeued[i].id[1]

\* C6 (as claimed): a submission made after the destructor has been entered
\* never hangs; in particular, one made when every worker has already exited
\* does not leave its caller suspended.
C6_ShutdownRaceFailsFast ==
    [][\A p \in Producers :
          (posts'[p] = posts[p] + 1 /\ pool # "alive" /\ AllExited)
              => ppc'[p] # "blocked"]_vars

\* the Log / Flush envelopes that were in the queue ahead of the terminate
\* message accepted[j] when it entered the queue
AheadOf(j) ==
    {accepted[i].msg : i \in {x \in DOMAIN accepted :
                                  /\ x < j
                                  /\ x > accepted[j].at
                                  /\ accepted[x].msg.msg_type # "terminate"}}

TerminatesDequeued ==
    {j \in DOMAIN accepted : /\ accepted[j].msg.msg_type = "terminate"
                              /\ accepted[j].msg \in DequeuedMsgs}

\* C7 (as claimed): when a terminate message has been dequeued, every Log /
\* Flush envelope that was ahead of it in the queue has been handed to its
\* backend call.
C7_DispatchedBeforeTerminate ==
    \A j \in TerminatesDequeued : \A m \in AheadOf(j) : DispatchCount(m) = 1

\* C7 (amended): when a terminate message has been dequeued, every Log / Flush
\* envelope that was ahead of it in the queue has been dequeued before it, and
\* has been dispatched too if the pool has one worker; and while a worker is
\* exited, every envelope waiting in the queue entered it after a terminate
\* message.
C7_DrainThenStop ==
    /\ \A j \in TerminatesDequeued : \A m \in AheadOf(j) :
          /\ m \in DequeuedMsgs
          /\ DequeuedAt(m) < DequeuedAt(accepted[j].msg)
          /\ cfg.threads_n = 1 => DispatchCount(m) = 1
    /\ (\E w \in Workers : threads_[w] = "exited") =>
          \A i \in DOMAIN q_.q :
              \E j \in DOMAIN accepted :
                  /\ accepted[j].msg.msg_type = "terminate"
                  /\ j < AcceptedAt(q_.q[i])

\* C7 witness: a worker has exited on a terminate message while the envelope
\* that was ahead of it in the queue is still being processed by the other
\* worker, and a later envelope waits in the queue.
C7_Witness ==
    /\ \E w \in Workers : threads_[w] = "exited"
    /\ \E j \in TerminatesDequeued :
          \E m \in AheadOf(j) :
              /\ DispatchCount(m) = 0
              /\ \E w \in Workers : threads_[w] = "process" /\ incoming[w] = m
    /\ \E i \in DOMAIN q_.q : q_.q[i].msg_type # "terminate"

\* C8: the logger of every envelope that is alive in the pool (up to the
\* return of process_next_msg_) has a use count of at least 1, whether or not
\* its external owner has let go.
C8_LifetimeExtension ==
    \A m \in InFlight : m.worker_ptr # nullptr => use_count[m.worker_ptr] >= 1

\* C8 witness: the only owner has released the logger and a worker is in the
\* middle of processing a Log envelope of it, holding the last reference.
C8_Witness ==
    \E w \in Workers, l \in Loggers :
        /\ threads_[w] = "process"
        /\ incoming[w].msg_type = "log"
        /\ incoming[w].worker_ptr = l
        /\ ~owner[l]
        /\ use_count[l] = 1

\* what a step does to a producer suspended, or becoming suspended, in q_.enqueue
C9_BlockedStep ==
    \A p \in Producers :
        /\ ppc[p] = "blocked" =>
              \/ ppc'[p] = "blocked" /\ frame'[p] = frame[p]
              \/ /\ ~full(q_)
                 /\ ppc'[p] = "idle"
                 /\ q_'.q = Append(q_.q, frame[p].msg)
                 /\ q_'.overrun_counter = q_.overrun_counter
                 /\ discarded' = discarded
        /\ (ppc[p] = "idle" /\ ppc'[p] = "blocked") =>
              /\ full(q_)
              /\ q_' = q_
              /\ discarded' = discarded
              /\ frame'[p].policy = "block"

\* C9: an envelope enters the queue only when the queue has room; a producer
\* suspended in a blocking submission stays suspended while the queue is full
\* and, when it proceeds, its envelope is appended and the discard counter is
\* untouched; a producer becomes suspended only on a full queue, with nothing
\* changed; no blocking-policy envelope is ever discarded.
C9_BlockingNeverDrops ==
    /\ [](\A d \in discarded : d.policy # "block")
    /\ [](\A p \in Producers : ppc[p] = "blocked" =>
              \A d \in discarded : d.msg # frame[p].msg)
    /\ [][accepted' # accepted => ~full(q_)]_vars
    /\ [][C9_BlockedStep]_vars

\* C9 witness: capacity 2, one producer has made three submissions with no
\* dequeue so far, and is suspended in the third.
C9_Witness ==
    /\ cfg.q_max_items = 2
    /\ dequeued = <<>>
    /\ discarded = {}
    /\ \E p \in Producers :
          /\ posts[p] = 3
          /\ ppc[p] = "blocked"
          /\ frame[p].policy = "block"
          /\ frame[p].msg.id = <<p, 3>>
    /\ Len(q_.q) = 2

\* C10: a producer is suspended only in a blocking-policy submission: a
\* discard-policy submission returns in the step that makes it.
C10_DiscardNeverSuspends ==
    \A p \in Producers : ppc[p] = "blocked" => frame[p].policy = "block"

\* C10 witness: two discard-policy submissions have returned on a full queue,
\* one of them the latest submission made; every worker has exited, the queue
\* is full and no producer is suspended.
C10_Witness ==
    /\ AllExited
    /\ full(q_)
    /\ Cardinality(discarded) = 2
    /\ \A d \in discarded : d.policy = "discard"
    /\ \A p \in Producers : ppc[p] = "idle"
    /\ \E d \in discarded : \A i \in DOMAIN accepted :
          accepted[i].msg.msg_type = "terminate" \/ accepted[i].msg.id[2] < d.msg.id[2]

\* the constructor has just returned or thrown: nothing else has run yet
JustConstructed ==
    /\ pool \in {"alive", "invalid"}
    /\ TotalPosts = 0
    /\ \A w \in Workers : threads_[w] = "start"

\* C11: the constructor fails exactly for threads_n = 0 and threads_n > 1000;
\* a failed construction has started no worker and leaves everything else as
\* it was (empty queue, counter 0, no history, the loggers' use counts those of
\* their owners), and stays so; every other threads_n gives a pool with
\* exactly threads_n workers, up to the largest valid count 1000.
C11_ConfigurationError ==
    /\ pool = "invalid" <=> (cfg.threads_n = 0 \/ cfg.threads_n > MaxThreadsN)
    /\ pool = "invalid" =>
          /\ Workers = {}
          /\ q_.q = <<>> /\ q_.overrun_counter = 0
          /\ accepted = <<>> /\ dequeued = <<>> /\ dispatched = <<>> /\ discarded = {}
          /\ \A p \in Producers : ppc[p] = "idle" /\ posts[p] = 0
          /\ \A l \in Loggers : use_count[l] = IF owner[l] THEN 1 ELSE 0
    /\ pool # "invalid" => Len(threads_) = cfg.threads_n
    /\ JustConstructed =>
          /\ \A n \in {1, MaxThreadsN} :
                LET tp == thread_pool(cfg.q_max_items, n) IN
                tp.pool = "alive" /\ Len(tp.threads) = n
          /\ \A n \in {0, MaxThreadsN + 1, MaxThreadsN + 2} :
                LET tp == thread_pool(cfg.q_max_items, n) IN
                tp.pool = "invalid" /\ tp.threads = <<>>

\* C11 witness: construction with threads_n = 1001 has failed, and the owner of
\* a logger has since released it.
C11_Witness ==
    /\ pool = "invalid"
    /\ cfg.threads_n = MaxThreadsN + 1
    /\ \E l \in Loggers : ~owner[l]

\* the backend call made in this step, if the step is one
LastDispatch == dispatched'[Len(dispatched')]

IsWork(a) == a.msg.msg_type # "terminate"
AcceptedWork == SelectSeq(accepted, IsWork)

\* the backend call that belongs to an envelope
CallFor(m) == IF m.msg_type = "log" THEN "backend_sink_it_" ELSE "backend_flush_"

\* C13: in a pool of one worker the backend calls run in the order in which the
\* envelopes entered the queue, without gaps and each with the call of its
\* type, whatever the producers' interleaving; once the worker has exited, the
\* calls made are exactly those of the envelopes accepted ahead of the
\* terminate message.
C13_SingleWorkerOrder ==
    cfg.threads_n = 1 =>
        /\ Len(dispatched) <= Len(AcceptedWork)
        /\ \A k \in DOMAIN dispatched :
              /\ dispatched[k].msg = AcceptedWork[k].msg
              /\ dispatched[k].call = CallFor(dispatched[k].msg)
              /\ dispatched[k].by = 1
        /\ AllExited =>
              \E j \in DOMAIN accepted :
                  /\ accepted[j].msg.msg_type = "terminate"
                  /\ Len(dispatched) = j - 1

\* C13 witness: one worker; Log, Log and Flush from two producers were
\* accepted, then the terminate message; the worker has made the three calls in
\* that order and exited, and the destructor has returned.
C13_Witness ==
    /\ cfg.threads_n = 1
    /\ pool = "destroyed"
    /\ Len(dispatched) = 3
    /\ dispatched[1].call = "backend_sink_it_"
    /\ dispatched[2].call = "backend_sink_it_"
    /\ dispatched[3].call = "backend_flush_"
    /\ dispatched[1].msg.id[1] # dispatched[2].msg.id[1]
    /\ \A k \in 1..3 : accepted[k].msg = dispatched[k].msg
    /\ accepted[4].msg.msg_type = "terminate"

\* C14 (as claimed): submissions are made concurrently and the pool is then
\* destroyed; once every worker has exited, each submission has been
\* dispatched exactly once or counted once in the discard counter
\* (submissions = backend calls + overrun_counter), and no Log / Flush envelope
\* is left in the queue.
C14_AccountingAtShutdown ==
    AllExited =>
        /\ TotalPosts = Len(dispatched) + q_.overrun_counter
        /\ \A i \in DOMAIN q_.q : q_.q[i].msg_type = "terminate"
        /\ \A m \in AcceptedMsgs : m.msg_type # "terminate" => DispatchCount(m) = 1

\* what a step of the second run of the destructor does to the pool
C15_SecondRunStep ==
    (\/ pool \in {"destroyed", "terminating_again", "joining_again"} /\ pool' # pool
     \/ pool = "terminating_again" /\ term_posted' # term_posted)
        => (q_' = q_ /\ threads_' = threads_ /\ accepted' = accepted)

IsTerminate(m) == m.msg_type = "terminate"
TerminatesAccepted == Cardinality({j \in DOMAIN accepted : IsTerminate(accepted[j].msg)})
TerminatesTaken == Cardinality({i \in DOMAIN dequeued : IsTerminate(dequeued[i])})
TerminatesQueued == Cardinality({i \in DOMAIN q_.q : IsTerminate(q_.q[i])})

\* C16: the destructor submits one terminate message per worker, never more,
\* and all of them once its first loop is done; none is ever discarded or
\* counted in overrun_counter; every terminate message taken from the queue
\* belongs to a different worker, which is processing it or has exited on it;
\* when the destructor has returned, each of the threads_n workers has taken
\* exactly one and exited, and no terminate message is left in the queue.
C16_OneTerminatePerWorker ==
    /\ TerminatesAccepted = term_posted
    /\ term_posted <= Len(threads_)
    /\ pool \in {"joining", "destroyed"} => TerminatesAccepted = Len(threads_)
    /\ pool \in {"alive", "invalid"} => TerminatesAccepted = 0
    /\ \A d \in discarded : ~IsTerminate(d.msg)
    /\ q_.overrun_counter = Cardinality({d \in discarded : d.policy = "discard"})
    /\ TerminatesAccepted = TerminatesQueued + TerminatesTaken
    /\ TerminatesTaken =
          Cardinality({w \in Workers : threads_[w] = "exited"})
            + Cardinality({w \in Workers : threads_[w] = "process" /\ IsTerminate(incoming[w])})
    /\ pool = "destroyed" =>
          /\ \A w \in Workers : threads_[w] = "exited"
          /\ TerminatesTaken = cfg.threads_n
          /\ TerminatesQueued = 0

\* C16 witness: the destructor has returned from a pool of two workers and
\* capacity 1; producers had envelopes discarded on the full queue, one of
\* them while a terminate message was waiting in it, and a Log / Flush envelope
\* is left in the queue.
C16_Witness ==
    /\ pool = "destroyed"
    /\ cfg.threads_n = 2
    /\ cfg.q_max_items = 1
    /\ TerminatesTaken = 2
    /\ q_.overrun_counter >= 1
    /\ q_.q # <<>>

\* what one step does to worker w, seen as the drain loop's state machine
C17_WorkerStep(w) ==
    \* Running -> Exited only on a terminate message, with no backend call
    /\ (threads_[w] # "exited" /\ threads_'[w] = "exited") =>
          /\ threads_[w] = "process"
          /\ IsTerminate(incoming[w])
          /\ dispatched' = dispatched
    \* a dequeue_for that times out changes nothing but the loop's position
    /\ (threads_[w] = "wait" /\ threads_'[w] = "loop") =>
          /\ q_' = q_
          /\ dispatched' = dispatched
          /\ use_count' = use_count
          /\ UNCHANGED <<incoming, dequeued, accepted, discarded, pool>>
    \* a Log / Flush envelope: one call of its kind on its own worker_ptr
    /\ (threads_[w] = "process" /\ threads_'[w] # "process" /\ ~IsTerminate(incoming[w])) =>
          /\ threads_'[w] = "loop"
          /\ Len(dispatched') = Len(dispatched) + 1
          /\ SubSeq(dispatched', 1, Len(dispatched)) = dispatched
          /\ LastDispatch.by = w
          /\ LastDispatch.msg = incoming[w]
          /\ LastDispatch.msg.worker_ptr \in Loggers
          /\ LastDispatch.call = CallFor(incoming[w])
    \* Exited is absorbing
    /\ threads_[w] = "exited" =>
          /\ threads_'[w] = "exited"
          /\ incoming'[w] = incoming[w]

\* only workers change the dispatch history, and one envelope at a time
C17_DispatchStep ==
    dispatched' # dispatched =>
        \E w \in Workers : threads_[w] = "process" /\ threads_'[w] = "loop"

\* C17: a worker goes from Running to Exited only by processing a terminate
\* message; a dequeue timeout leaves it Running and changes nothing (queue,
\* discard counter, dispatch history, use counts); a Log envelope causes
\* exactly one backend_sink_it_ and a Flush envelope exactly one
\* backend_flush_, on the envelope's own logger, and the worker stays Running;
\* an Exited worker stays Exited and takes nothing more.
C17_DrainLoopStateMachine ==
    /\ [][\A w \in Workers : C17_WorkerStep(w)]_vars
    /\ [][C17_DispatchStep]_vars
    /\ [](\A m \in DequeuedMsgs : DispatchCount(m) <= 1)
    /\ [](\A w \in Workers : threads_[w] = "exited" => incoming[w] = NoMsg)

\* C17 witness: two workers; one has made a backend_sink_it_ and a
\* backend_flush_ call and then exited on a terminate message; the other is
\* back at the top of its loop with the queue empty.
C17_Witness ==
    /\ cfg.threads_n = 2
    /\ q_.q = <<>>
    /\ \E w, v \in Workers :
          /\ threads_[w] = "exited"
          /\ threads_[v] = "loop"
          /\ \E i, j \in DOMAIN dispatched :
                /\ dispatched[i].by = w /\ dispatched[i].call = "backend_sink_it_"
                /\ dispatched[j].by = w /\ dispatched[j].call = "backend_flush_"
          /\ \E k \in DOMAIN dispatched : dispatched[k].by = v

Running(w) == w \in Workers /\ threads_[w] \in {"start", "loop", "wait", "process"}
Processing(w) == w \in Workers /\ threads_[w] = "process"

\* C18: with fair scheduling of the workers and of suspended producers, no
\* wake-up is lost: a producer suspended in a blocking submission gets its
\* envelope into the queue unless every worker has exited; a Running worker
\* that finds an envelope in the queue gets to process one unless the queue is
\* emptied by others; and an envelope in the queue is taken out unless every
\* worker has exited.
C18_NoLostWakeup ==
    /\ \A p \in Producers :
          (ppc[p] = "blocked") ~> (ppc[p] = "idle" \/ AllExited)
    /\ \A w \in 1..MaxThreads :
          (Running(w) /\ q_.q # <<>>) ~> (Processing(w) \/ q_.q = <<>>)
    /\ (q_.q # <<>>) ~> (q_.q = <<>> \/ AllExited)

\* C18 witness: a producer is suspended in a blocking submission, a worker has
\* just taken an envelope out of the full queue, so there is room, and the
\* other worker is waiting in dequeue_for.
C18_Witness ==
    /\ \E p \in Producers : ppc[p] = "blocked" /\ frame[p].policy = "block"
    /\ ~full(q_)
    /\ \E w, v \in Workers :
          /\ threads_[w] = "process" /\ ~IsTerminate(incoming[w])
          /\ threads_[v] = "wait"

\* the call is made from the "start" position only, and a worker takes an
\* envelope from the queue only after its call
C19_HookStep ==
    \A w \in Workers :
        /\ on_thread_start_calls'[w] # on_thread_start_calls[w] =>
              /\ threads_[w] = "start"
              /\ on_thread_start_calls[w] = 0
              /\ on_thread_start_calls'[w] = 1
              /\ dequeued' = dequeued
        /\ (incoming'[w] # incoming[w] /\ incoming'[w] # NoMsg) =>
              on_thread_start_calls[w] = 1

\* C19: every worker calls on_thread_start exactly once, before it enters
\* worker_loop_ and so before its first dequeue_for: a worker that has not made
\* the call holds no envelope and has made no backend call, a worker past it
\* has made it once and never makes it again; the calls add up to at most
\* threads_n, and to exactly threads_n once every worker is past it.
C19_StartupHook ==
    /\ [](\A w \in Workers :
            /\ on_thread_start_calls[w] = IF threads_[w] = "start" THEN 0 ELSE 1
            /\ threads_[w] = "start" => incoming[w] = NoMsg)
    /\ [](\A k \in DOMAIN dispatched : on_thread_start_calls[dispatched[k].by] = 1)
    /\ [](SumOver(on_thread_start_calls, Workers) <= cfg.threads_n)
    /\ []((pool = "destroyed" \/ \A w \in Workers : threads_[w] # "start")
            => SumOver(on_thread_start_calls, Workers) = Len(threads_))
    /\ [][C19_HookStep]_vars

\* C19 witness: two workers; one has made its on_thread_start call and a
\* backend call, the other has not yet made its call although envelopes are
\* waiting in the queue.
C19_Witness ==
    /\ cfg.threads_n = 2
    /\ \E w, v \in Workers :
          /\ on_thread_start_calls[w] = 1
          /\ \E k \in DOMAIN dispatched : dispatched[k].by = w
          /\ threads_[v] = "start"
          /\ on_thread_start_calls[v] = 0
    /\ q_.q # <<>>

\* the references on logger l that are not its external owner's
PoolRefs(l) == use_count[l] - (IF owner[l] THEN 1 ELSE 0)

Queued(l) == {i \in DOMAIN q_.q : q_.q[i].worker_ptr = l}
BeingProcessed(l) == {w \in Workers : threads_[w] = "process" /\ incoming[w].worker_ptr = l}
Suspended(l) == {p \in Producers : ppc[p] = "blocked" /\ frame[p].msg.worker_ptr = l}

\* terminate messages carry no logger and never reach a backend call
C20_TerminateHoldsNothing ==
    /\ \A j \in DOMAIN accepted :
          IsTerminate(accepted[j].msg) => accepted[j].msg.worker_ptr = nullptr
    /\ \A i \in DOMAIN q_.q : IsTerminate(q_.q[i]) <=> q_.q[i].worker_ptr = nullptr
    /\ \A k \in DOMAIN dispatched :
          ~IsTerminate(dispatched[k].msg) /\ dispatched[k].msg.worker_ptr \in Loggers

\* C20 (as claimed): the references the pool holds on a logger are as many as
\* the logger's envelopes that are in the queue or being processed by a worker;
\* terminate messages hold none and cause no backend call.
C20_RefsAreQueuedOrProcessed ==
    /\ \A l \in Loggers :
          PoolRefs(l) = Cardinality(Queued(l)) + Cardinality(BeingProcessed(l))
    /\ C20_TerminateHoldsNothing

\* the reference is given back when process_next_msg_ returns, and a
\* submission that is discarded leaves the count as it was
C20_ReleaseStep ==
    \A l \in Loggers :
        /\ \A w \in Workers :
              (threads_[w] = "process" /\ threads_'[w] # "process") =>
                  use_count'[l] = use_count[l] - (IF incoming[w].worker_ptr = l THEN 1 ELSE 0)
        /\ discarded' # discarded => use_count'[l] = use_count[l]

\* C20 (amended): the references the pool holds on a logger are as many as the
\* logger's envelopes that are held by a producer suspended in a blocking
\* submission, in the queue, or being processed by a worker; with none of
\* these the pool holds no reference; the reference is given back when the
\* worker has finished with the envelope, and at once when the envelope is
\* discarded; terminate messages hold none and cause no backend call.
C20_ReferenceAccounting ==
    /\ [](\A l \in Loggers :
            /\ PoolRefs(l) = Cardinality(Suspended(l)) + Cardinality(Queued(l))
                                + Cardinality(BeingProcessed(l))
            /\ PoolRefs(l) = Cardinality({m \in InFlight : m.worker_ptr = l}))
    /\ [](C20_TerminateHoldsNothing)
    /\ [][C20_ReleaseStep]_vars

\* C20 witness: three envelopes of one logger are alive at once, one held by a
\* suspended producer, one in the queue and one being processed, and the use
\* count is 4 with the owner's reference; a terminate message has been
\* processed before.
C20_Witness ==
    \E l \in Loggers :
        /\ Cardinality(Suspended(l)) = 1
        /\ Cardinality(Queued(l)) = 1
        /\ Cardinality(BeingProcessed(l)) = 1
        /\ use_count[l] = 4
        /\ \E w \in Workers : threads_[w] = "exited"

====
